---- MODULE Spec2Model ----
(***************************************************************************)
(* Model of src/main.py: a four-stage interview pipeline (analyze_jd,      *)
(* generate_question, evaluate_answer, generate_final_decision) sequenced  *)
(* by run_interview over one InterviewState.  The language model is the    *)
(* environment: every invoke() receives a nondeterministically chosen      *)
(* reply.  JsonOutputParser decodes JSON text and raises on text that is   *)
(* not JSON; it does not check the decoded value against the pydantic      *)
(* class it was given (that class only feeds the format instructions).     *)
(***************************************************************************)
EXTENDS Integers, Sequences, FiniteSets, TLC

\* ------------------------------------------------------------------ bounds
MaxSkills == 5

\* ------------------------------------------------------- program constants
\* the slice [:2] of run_interview
Cap == 2

\* ---------------------------------------------------------- value universe
SkillNames == {"Django", "Azure"}
QuestionTexts == {"Q-a", "Q-b"}
AnswerTexts == {"", "ans"}
VerdictTexts == {"HIRE", "NO HIRE"}
ModelScores == {0, 1, 10, 11}

\* Optional[str] = None
None == "<None>"

Min(a, b) == IF a < b THEN a ELSE b

SeqsUpTo(S, n) == UNION {[1..k -> S] : k \in 0..n}

\* a Python dict: a function from the keys that are present
EmptyDict == [k \in {} |-> 0]
Restrict(full, S) == [k \in S |-> full[k]]

\* ------------------------------------------------------- schema classes
\* class JobAnalysis
JobAnalysis == {"role_title", "technical_skills", "soft_skills", "seniority_level"}
\* class EvaluationScore
EvaluationScore == {"score", "reasoning"}

\* -------------------------------------------------- replies of the model
\* a reply is a transport failure, text that is not JSON, text that is a JSON
\* object, or (for the string chains) plain text
TransportFailure == [kind |-> "fail"]
MalformedText == [kind |-> "malformed"]
JsonText(d) == [kind |-> "json", value |-> d]
PlainText(s) == [kind |-> "text", value |-> s]

FullAnalysis(ts) ==
    [role_title |-> "Dev", technical_skills |-> ts,
     soft_skills |-> <<>>, seniority_level |-> "Senior"]
FullScore(s) == [score |-> s, reasoning |-> "ok"]

JDObjects ==
    {Restrict(FullAnalysis(ts), S) :
        ts \in SeqsUpTo(SkillNames, MaxSkills), S \in SUBSET JobAnalysis}
EvalObjects ==
    {Restrict(FullScore(s), S) : s \in ModelScores, S \in SUBSET EvaluationScore}

JDReplies == {TransportFailure, MalformedText} \cup {JsonText(d) : d \in JDObjects}
EvalReplies == {TransportFailure, MalformedText} \cup {JsonText(d) : d \in EvalObjects}
QuestionReplies == {TransportFailure} \cup {PlainText(q) : q \in QuestionTexts}
VerdictReplies == {TransportFailure} \cup {PlainText(v) : v \in VerdictTexts}

\* ------------------------------------------------------------- the chains
\* prompt | llm | JsonOutputParser: the decoded value, or the exception
JsonChain(reply) ==
    CASE reply.kind = "fail" -> [ok |-> FALSE, error |-> "TransportError"]
      [] reply.kind = "malformed" -> [ok |-> FALSE, error |-> "OutputParserException"]
      [] OTHER -> [ok |-> TRUE, value |-> reply.value]

\* prompt | llm | StrOutputParser: the text, or the exception
StrChain(reply) ==
    CASE reply.kind = "fail" -> [ok |-> FALSE, error |-> "TransportError"]
      [] OTHER -> [ok |-> TRUE, value |-> reply.value]

\* dict.get(key, default)
Get(d, key, default) == IF key \in DOMAIN d THEN d[key] ELSE default

\* ---------------------------------------------------------------- stages
\* Each stage is a function of the session fields it touches and of the
\* model's reply; it yields the fields after the call, the requests it sent,
\* the exception it raised ("none" when it returned) and its return value.

\* analyze_jd with the decode error swallowed (a try/except fallback)
analyze_jd_Fallback(requirements, reply) ==
    LET r == JsonChain(reply) IN
    IF ~r.ok
    THEN [requirements |-> requirements, sent |-> <<"jd_agent">>,
          error |-> IF r.error = "OutputParserException" THEN "none" ELSE r.error]
    ELSE IF "role_title" \notin DOMAIN r.value
    THEN [requirements |-> r.value, sent |-> <<"jd_agent">>, error |-> "KeyError"]
    ELSE [requirements |-> r.value, sent |-> <<"jd_agent">>, error |-> "none"]

\* analyze_jd: the requirements are stored before role_title is read
analyze_jd(requirements, reply) ==
    LET r == JsonChain(reply) IN
    IF ~r.ok
    THEN [requirements |-> requirements, sent |-> <<"jd_agent">>, error |-> r.error]
    ELSE IF "role_title" \notin DOMAIN r.value
    THEN [requirements |-> r.value, sent |-> <<"jd_agent">>, error |-> "KeyError"]
    ELSE [requirements |-> r.value, sent |-> <<"jd_agent">>, error |-> "none"]

\* generate_question that skips the append for a question already asked
generate_question_Dedup(questions, reply) ==
    LET r == StrChain(reply) IN
    IF ~r.ok
    THEN [questions |-> questions, sent |-> <<"q_agent">>, error |-> r.error,
          response |-> ""]
    ELSE [questions |-> IF \E k \in 1..Len(questions) : questions[k] = r.value
                        THEN questions ELSE Append(questions, r.value),
          sent |-> <<"q_agent">>, error |-> "none", response |-> r.value]

\* generate_question
generate_question(questions, reply) ==
    LET r == StrChain(reply) IN
    IF ~r.ok
    THEN [questions |-> questions, sent |-> <<"q_agent">>, error |-> r.error,
          response |-> ""]
    ELSE [questions |-> Append(questions, r.value), sent |-> <<"q_agent">>,
          error |-> "none", response |-> r.value]

\* the record with question and answer exchanged
EvalEntry_Swapped(q, a, result) ==
    [question |-> a, answer |-> q,
     score |-> result["score"], reasoning |-> result["reasoning"]]

\* the record with the score clamped to 1..10
EvalEntry_Clamped(q, a, result) ==
    [question |-> q, answer |-> a,
     score |-> IF result["score"] < 1 THEN 1
               ELSE IF result["score"] > 10 THEN 10 ELSE result["score"],
     reasoning |-> result["reasoning"]]

\* the record evaluate_answer appends
EvalEntry(q, a, result) ==
    [question |-> q, answer |-> a,
     score |-> result["score"], reasoning |-> result["reasoning"]]

\* evaluate_answer that logs a placeholder record when the request fails
evaluate_answer_Salvage(evals, q, a, reply) ==
    LET r == JsonChain(reply) IN
    IF ~r.ok
    THEN [evaluations |-> Append(evals, [question |-> q, answer |-> a,
                                          score |-> 1, reasoning |-> ""]),
          sent |-> <<"eval_agent">>, error |-> r.error, result |-> EmptyDict]
    ELSE IF ~(EvaluationScore \subseteq DOMAIN r.value)
    THEN [evaluations |-> evals, sent |-> <<"eval_agent">>, error |-> "KeyError",
          result |-> EmptyDict]
    ELSE [evaluations |-> Append(evals, [question |-> q, answer |-> a,
                score |-> r.value["score"], reasoning |-> r.value["reasoning"]]),
          sent |-> <<"eval_agent">>, error |-> "none", result |-> r.value]

\* evaluate_answer that sends the request a second time when the first fails
evaluate_answer_Retry(evals, q, a, reply) ==
    LET r == JsonChain(reply) IN
    IF ~r.ok
    THEN [evaluations |-> evals, sent |-> <<"eval_agent", "eval_agent">>,
          error |-> r.error, result |-> EmptyDict]
    ELSE IF ~(EvaluationScore \subseteq DOMAIN r.value)
    THEN [evaluations |-> evals, sent |-> <<"eval_agent">>, error |-> "KeyError",
          result |-> EmptyDict]
    ELSE [evaluations |-> Append(evals, [question |-> q, answer |-> a,
                score |-> r.value["score"], reasoning |-> r.value["reasoning"]]),
          sent |-> <<"eval_agent">>, error |-> "none", result |-> r.value]

\* evaluate_answer: the record is built (both subscripts) before the append
evaluate_answer(evals, q, a, reply) ==
    LET r == JsonChain(reply) IN
    IF ~r.ok
    THEN [evaluations |-> evals, sent |-> <<"eval_agent">>, error |-> r.error,
          result |-> EmptyDict]
    ELSE IF ~(EvaluationScore \subseteq DOMAIN r.value)
    THEN [evaluations |-> evals, sent |-> <<"eval_agent">>, error |-> "KeyError",
          result |-> EmptyDict]
    ELSE [evaluations |-> Append(evals, EvalEntry(q, a, r.value)),
          sent |-> <<"eval_agent">>, error |-> "none", result |-> r.value]

\* generate_final_decision
generate_final_decision(recommendation, reply) ==
    LET r == StrChain(reply) IN
    IF ~r.ok
    THEN [recommendation |-> recommendation, sent |-> <<"rec_agent">>, error |-> r.error]
    ELSE [recommendation |-> r.value, sent |-> <<"rec_agent">>, error |-> "none"]

\* the topics without the [:2] slice
SelectTopics_NoCap(requirements) ==
    Get(requirements, "technical_skills", <<>>)

\* state.analyzed_requirements.get('technical_skills', [])[:2]
SelectTopics(requirements) ==
    LET ts == Get(requirements, "technical_skills", <<>>) IN
    SubSeq(ts, 1, Min(Cap, Len(ts)))

\* a loop that asks no question before reading an answer
ForNext_SkipQuestion(done, n) == IF done < n THEN "input" ELSE "final"

\* a loop that leaves after its first topic
ForNext_StopEarly(done, n) == IF done < n /\ done < 1 THEN "generate" ELSE "final"

\* for skill in skills: where the loop goes when done topics have been handled
ForNext(done, n) == IF done < n THEN "generate" ELSE "final"

\* ----------------------------------------------------------------- state
VARIABLES
    pc,                     \* position in run_interview
    analyzed_requirements,  \* InterviewState fields
    generated_questions,
    evaluations,
    final_recommendation,
    skills,                 \* locals of run_interview
    i,                      \* topics of the for loop already taken
    question,
    answer,
    evaluation,
    error,                  \* the exception that left run_interview, or "none"
    calls,                  \* the calls run_interview has made, in order
    requests,               \* the invoke() calls made, by chain, in order
    reply                   \* the model's reply to the latest request

vars == <<pc, analyzed_requirements, generated_questions, evaluations,
          final_recommendation, skills, i, question, answer, evaluation,
          error, calls, requests, reply>>

session == <<analyzed_requirements, generated_questions, evaluations,
             final_recommendation>>
locals == <<skills, i, question, answer, evaluation>>

\* InterviewState(candidate_name, job_description) at the top of run_interview
Init ==
    /\ pc = "analyze"
    /\ analyzed_requirements = EmptyDict
    /\ generated_questions = <<>>
    /\ evaluations = <<>>
    /\ final_recommendation = None
    /\ skills = <<>>
    /\ i = 0
    /\ question = ""
    /\ answer = ""
    /\ evaluation = EmptyDict
    /\ error = "none"
    /\ calls = <<>>
    /\ requests = <<>>
    /\ reply = PlainText("")

\* an exception is not caught anywhere: it ends the run
Raise(e) == /\ pc' = "aborted"
            /\ error' = e

\* analyze_jd(state)
AnalyzeJD ==
    /\ pc = "analyze"
    /\ \E rp \in JDReplies :
         LET out == analyze_jd(analyzed_requirements, rp) IN
         /\ reply' = rp
         /\ analyzed_requirements' = out.requirements
         /\ requests' = requests \o out.sent
         /\ IF out.error = "none"
            THEN pc' = "select" /\ error' = error
            ELSE Raise(out.error)
    /\ calls' = Append(calls, "analyze_jd")
    /\ UNCHANGED <<generated_questions, evaluations, final_recommendation, locals>>

\* skills = ...[:2], and entry into the for loop
Select ==
    /\ pc = "select"
    /\ skills' = SelectTopics(analyzed_requirements)
    /\ i' = 0
    /\ pc' = ForNext(0, Len(skills'))
    /\ UNCHANGED <<session, question, answer, evaluation, error, calls, requests, reply>>

\* question = generate_question(state, topic=skill)
GenerateQuestion ==
    /\ pc = "generate"
    /\ \E rp \in QuestionReplies :
         LET out == generate_question(generated_questions, rp) IN
         /\ reply' = rp
         /\ generated_questions' = out.questions
         /\ requests' = requests \o out.sent
         /\ IF out.error = "none"
            THEN pc' = "input" /\ error' = error /\ question' = out.response
            ELSE Raise(out.error) /\ question' = question
    /\ i' = i + 1
    /\ calls' = Append(calls, "generate_question")
    /\ UNCHANGED <<analyzed_requirements, evaluations, final_recommendation,
                   skills, answer, evaluation>>

\* answer = input("Your Answer: "); a closed stdin raises EOFError
ReadAnswer ==
    /\ pc = "input"
    /\ \/ \E a \in AnswerTexts :
            /\ answer' = a
            /\ pc' = "evaluate"
            /\ error' = error
       \/ /\ Raise("EOFError")
          /\ answer' = answer
    /\ calls' = Append(calls, "input")
    /\ UNCHANGED <<session, skills, i, question, evaluation, requests, reply>>

\* evaluation = evaluate_answer(state, question, answer)
EvaluateAnswer ==
    /\ pc = "evaluate"
    /\ \E rp \in EvalReplies :
         LET out == evaluate_answer(evaluations, question, answer, rp) IN
         /\ reply' = rp
         /\ evaluations' = out.evaluations
         /\ requests' = requests \o out.sent
         /\ IF out.error = "none"
            THEN /\ pc' = ForNext(i, Len(skills))
                 /\ error' = error
                 /\ evaluation' = out.result
            ELSE Raise(out.error) /\ evaluation' = evaluation
    /\ calls' = Append(calls, "evaluate_answer")
    /\ UNCHANGED <<analyzed_requirements, generated_questions, final_recommendation,
                   skills, i, question, answer>>

\* final_verdict = generate_final_decision(state)
FinalDecision ==
    /\ pc = "final"
    /\ \E rp \in VerdictReplies :
         LET out == generate_final_decision(final_recommendation, rp) IN
         /\ reply' = rp
         /\ final_recommendation' = out.recommendation
         /\ requests' = requests \o out.sent
         /\ IF out.error = "none"
            THEN pc' = "done" /\ error' = error
            ELSE Raise(out.error)
    /\ calls' = Append(calls, "generate_final_decision")
    /\ UNCHANGED <<analyzed_requirements, generated_questions, evaluations, locals>>

Next ==
    \/ AnalyzeJD
    \/ Select
    \/ GenerateQuestion
    \/ ReadAnswer
    \/ EvaluateAnswer
    \/ FinalDecision

Spec == Init /\ [][Next]_vars

\* ------------------------------------------------------------ properties
Last(s) == s[Len(s)]
Count(s, x) == Cardinality({k \in 1..Len(s) : s[k] = x})
Occurs(s, x) == \E k \in 1..Len(s) : s[k] = x

\* the number of technical skills the extraction yielded
NumExtracted == Len(Get(analyzed_requirements, "technical_skills", <<>>))

\* the chain each stage sends its request to
Agent ==
    [analyze_jd |-> "jd_agent", generate_question |-> "q_agent",
     evaluate_answer |-> "eval_agent", generate_final_decision |-> "rec_agent"]

\* the calls that may directly follow one another in a run
Successor ==
    {<<"analyze_jd", "generate_question">>,
     <<"analyze_jd", "generate_final_decision">>,
     <<"generate_question", "input">>,
     <<"input", "evaluate_answer">>,
     <<"evaluate_answer", "generate_question">>,
     <<"evaluate_answer", "generate_final_decision">>}

\* C1: the first call of a run is analyze_jd and it happens once; every later
\* call follows its predecessor in the order analyze_jd, then cycles of
\* (generate_question, input, evaluate_answer), then generate_final_decision,
\* after which nothing is called; and whenever a question has been requested
\* the requirements have already been written.
C1_StageOrder ==
    /\ calls # <<>> => calls[1] = "analyze_jd"
    /\ Count(calls, "analyze_jd") <= 1
    /\ \A k \in 1..(Len(calls) - 1) : <<calls[k], calls[k + 1]>> \in Successor
    /\ Occurs(calls, "generate_question") =>
          /\ analyzed_requirements # EmptyDict
          /\ "role_title" \in DOMAIN analyzed_requirements

C1_Witness ==
    /\ pc = "done"
    /\ calls = <<"analyze_jd", "generate_question", "input", "evaluate_answer",
                 "generate_question", "input", "evaluate_answer",
                 "generate_final_decision">>

\* C2: the loop never starts more cycles than min(Cap, number of extracted
\* technical skills), and a run that ends without a failure has performed
\* exactly that many question / answer / evaluation cycles.
C2_CycleCount ==
    /\ i <= Min(Cap, NumExtracted)
    /\ pc = "done" =>
          /\ Count(calls, "generate_question") = Min(Cap, NumExtracted)
          /\ Count(calls, "input") = Min(Cap, NumExtracted)
          /\ Count(calls, "evaluate_answer") = Min(Cap, NumExtracted)
          /\ Len(evaluations) = Min(Cap, NumExtracted)

C2_Witness ==
    /\ pc = "done"
    /\ NumExtracted = 5
    /\ Len(evaluations) = 2

\* C3: between cycles (after i completed cycles) the evaluation log has exactly
\* i entries, and at all times entry k of the log carries the question that
\* was generated in cycle k, which is element k of generated_questions.
C3_LogAligned ==
    /\ pc \in {"generate", "final", "done"} =>
          /\ Len(evaluations) = i
          /\ Len(generated_questions) = i
    /\ Len(evaluations) <= Len(generated_questions)
    /\ \A k \in 1..Len(evaluations) :
          evaluations[k].question = generated_questions[k]

C3_Witness ==
    /\ pc = "final"
    /\ Len(evaluations) = 2
    /\ evaluations[1].question # evaluations[2].question
    /\ evaluations[1].answer # evaluations[1].question

\* C4: when the reply to the extraction request is not decodable, the run ends
\* with the parser's exception, and no question has been generated, no answer
\* evaluated and no recommendation produced.
C4_ExtractionDecodeFailure ==
    (requests = <<"jd_agent">> /\ reply.kind = "malformed") =>
        /\ pc = "aborted"
        /\ error = "OutputParserException"
        /\ generated_questions = <<>>
        /\ evaluations = <<>>
        /\ final_recommendation = None
        /\ calls = <<"analyze_jd">>

C4_Witness ==
    /\ pc = "aborted"
    /\ error = "OutputParserException"
    /\ requests = <<"jd_agent">>
    /\ reply = MalformedText

\* C5: a decoded reply that lacks a field of its schema fails the run: the
\* run is never at or past question generation with requirements that lack a
\* JobAnalysis field, and never holds an evaluation that lacks an
\* EvaluationScore field.
C5_MissingFieldFailsRun ==
    /\ pc \in {"generate", "input", "evaluate", "final", "done"} =>
          JobAnalysis \subseteq DOMAIN analyzed_requirements
    /\ \A k \in 1..Len(calls) :
          calls[k] \in {"generate_question", "generate_final_decision"} =>
             JobAnalysis \subseteq DOMAIN analyzed_requirements
    /\ evaluation # EmptyDict => EvaluationScore \subseteq DOMAIN evaluation

\* C6: a failing evaluation request (transport or decode) ends the run in that
\* step with the log, the question list and the recommendation untouched and
\* one request sent; in the ended run the log is one entry short of the
\* questions, the recommendation is unset and evaluate_answer was the last
\* call, with as many evaluation requests as evaluate_answer calls.
C6_EvaluationFailure ==
    /\ [][(pc = "evaluate" /\ reply'.kind \in {"fail", "malformed"}) =>
            /\ pc' = "aborted"
            /\ error' \in {"TransportError", "OutputParserException"}
            /\ evaluations' = evaluations
            /\ generated_questions' = generated_questions
            /\ final_recommendation' = None
            /\ requests' = Append(requests, "eval_agent")]_vars
    /\ []((pc = "aborted" /\ calls # <<>> /\ Last(calls) = "evaluate_answer") =>
            /\ Len(evaluations) = Len(generated_questions) - 1
            /\ final_recommendation = None
            /\ Last(requests) = "eval_agent"
            /\ Count(requests, "eval_agent") = Count(calls, "evaluate_answer")
            /\ Count(requests, "q_agent") = Len(generated_questions))

C6_Witness ==
    /\ pc = "aborted"
    /\ Last(calls) = "evaluate_answer"
    /\ error = "OutputParserException"
    /\ Len(evaluations) = 1
    /\ Len(generated_questions) = 2

\* C7: final_recommendation changes only from None, only when the log holds
\* min(Cap, number of extracted skills) entries, and the log does not change
\* in that step or in any step after it.
C7_RecommendationOnceAtEnd ==
    /\ [][final_recommendation' # final_recommendation =>
            /\ final_recommendation = None
            /\ Len(evaluations) = Min(Cap, NumExtracted)
            /\ evaluations' = evaluations]_vars
    /\ [][final_recommendation # None => evaluations' = evaluations]_vars
    /\ [](final_recommendation # None =>
            /\ Len(evaluations) = Min(Cap, NumExtracted)
            /\ Count(calls, "generate_final_decision") = 1)

C7_Witness ==
    /\ final_recommendation = "HIRE"
    /\ NumExtracted > Cap
    /\ Len(evaluations) = Cap

\* C8 as stated: every record of the evaluation log has a score in 1..10.
C8_ScoresInRange ==
    \A k \in 1..Len(evaluations) : evaluations[k].score \in 1..10

\* C8 as amended: a record is appended with exactly the score the model
\* returned for that evaluation, and no record of the log changes afterwards;
\* so a logged score is in 1..10 only if the model's value was.
C8_ScoreAsReturned ==
    [][/\ \A k \in 1..Len(evaluations) :
             k <= Len(evaluations') /\ evaluations'[k] = evaluations[k]
       /\ Len(evaluations') # Len(evaluations) =>
             /\ Len(evaluations') = Len(evaluations) + 1
             /\ reply'.kind = "json"
             /\ Last(evaluations').score = reply'.value["score"]]_vars

C8_Witness ==
    /\ Len(evaluations) = 2
    /\ evaluations[1].score = 11
    /\ evaluations[2].score = 0

\* C9: every stage call sends exactly one request to its own chain; a run that
\* completes with N cycles has sent 1 extraction, N generation, N evaluation
\* and 1 synthesis request, 2N+2 in all; and in a run ended by a failed
\* request that request is the last one sent.
C9_OneRequestPerStage ==
    /\ \A s \in DOMAIN Agent : Count(requests, Agent[s]) = Count(calls, s)
    /\ Len(requests) = Len(calls) - Count(calls, "input")
    /\ pc = "done" =>
          /\ Count(requests, "jd_agent") = 1
          /\ Count(requests, "q_agent") = Len(evaluations)
          /\ Count(requests, "eval_agent") = Len(evaluations)
          /\ Count(requests, "rec_agent") = 1
          /\ Len(requests) = 2 * Len(evaluations) + 2
    /\ (pc = "aborted" /\ reply.kind \in {"fail", "malformed"}) =>
          /\ error \in {"TransportError", "OutputParserException"}
          /\ Last(requests) = Agent[Last(calls)]

C9_Witness ==
    /\ pc = "done"
    /\ Len(evaluations) = 2
    /\ Len(requests) = 6

\* C10: a generate_question call that returns appends the returned text to
\* generated_questions and keeps the earlier elements, also when the text is
\* already in the list; one that raises, and every other step, leaves the
\* list as it was.
C10_QuestionsAppendOnly ==
    [][/\ (pc = "generate" /\ pc' = "input") =>
             /\ reply'.kind = "text"
             /\ question' = reply'.value
             /\ generated_questions' = Append(generated_questions, question')
       /\ ~(pc = "generate" /\ pc' = "input") =>
             generated_questions' = generated_questions]_vars

C10_Witness ==
    /\ Len(generated_questions) = 2
    /\ generated_questions[1] = generated_questions[2]
    /\ final_recommendation # None

====
